---- MODULE Spec2Model ----
(***************************************************************************)
(* Model of scripts/titan_radar_ultimate_5000.py: the satellite scan of    *)
(* the Q47 main stars P = n^47 - (n-1)^47, with the mod-3 offset filter,   *)
(* the gmpy2 primality test and the two counters; and of the mod-30        *)
(* residue table of analyze_satellites.py / scripts/generate_figures.py.   *)
(*                                                                         *)
(* Python integers are arbitrary precision.  They are modelled as          *)
(* sign-magnitude numbers whose magnitude is a little-endian sequence of   *)
(* limbs in base BASE, so that n^47 is computed exactly.                   *)
(***************************************************************************)
EXTENDS Integers, Sequences, FiniteSets, TLC

VARIABLES pc, HAS_GMPY2, n_values, sorted_n, total_main_stars,
          bi, offset, n, P, k, candidate,
          total_satellites, twin_primes,
          last_line, hit_lines, twin_lines, k2_hits,
          calls, oracle_calls, nonpos_calls, q47_calls, residues

vars == <<pc, HAS_GMPY2, n_values, sorted_n, total_main_stars,
          bi, offset, n, P, k, candidate,
          total_satellites, twin_primes,
          last_line, hit_lines, twin_lines, k2_hits,
          calls, oracle_calls, nonpos_calls, q47_calls, residues>>

(***************************************************************************)
(* Program constants and model bounds                                      *)
(***************************************************************************)
Q == 47

SEARCH_RADIUS == 5000

\* The scan of one main star is cut off at this offset in the scan model
\* (the offsets model below runs the loop over the full SEARCH_RADIUS).
ScanRadius == 6

\* The log files contribute any set of values in 0..MaxFileN.
MaxFileN == 1

\* Stand-in for the 25 hard-coded sequence starts (1e8..4e9 in the source),
\* scaled down so that n^47 stays a few limbs long.
hardcoded_n == {4}

\* The four main stars of one sequence ("4连星"): range(4).
StarOffsets == 0..3

Radius == IF ScanRadius < SEARCH_RADIUS THEN ScanRadius ELSE SEARCH_RADIUS

FileNs == 0..MaxFileN

admissible == <<0, 2, 6, 8, 12, 14, 18, 20, 24, 26>>

(***************************************************************************)
(* Arbitrary-precision integers                                            *)
(***************************************************************************)
BASE == 32768

BigZero == [neg |-> FALSE, mag |-> <<>>]

\* The(S) is the element of a one-element set.  Operands are bound as
\* values (v \in {e}) where they are used more than once, so that each
\* operand is evaluated once.
The(S) == CHOOSE v \in S : TRUE

RECURSIVE MagFromNat(_)
MagFromNat(x) ==
    IF x = 0 THEN <<>> ELSE <<x % BASE>> \o MagFromNat(x \div BASE)

\* drop the zero limbs at the high end
RECURSIVE MagNormTo(_, _)
MagNormTo(m, i) ==
    IF i = 0 THEN <<>>
    ELSE IF m[i] = 0 THEN MagNormTo(m, i - 1)
    ELSE SubSeq(m, 1, i)

MagNorm(x) == The({ MagNormTo(m, Len(m)) : m \in {x} })

Limb(m, i) == IF i <= Len(m) THEN m[i] ELSE 0

\* m * s + carry from limb i on, s a small natural
RECURSIVE MagMulSmallFrom(_, _, _, _)
MagMulSmallFrom(m, s, i, carry) ==
    IF i > Len(m) THEN MagFromNat(carry)
    ELSE The({ <<t % BASE>> \o MagMulSmallFrom(m, s, i + 1, t \div BASE)
               : t \in {m[i] * s + carry} })

MagMulSmall(x, s, carry) ==
    The({ MagMulSmallFrom(m, s, 1, carry) : m \in {x} })

RECURSIVE MagAddFrom(_, _, _, _)
MagAddFrom(a, b, i, carry) ==
    IF i > Len(a) /\ i > Len(b) THEN MagFromNat(carry)
    ELSE The({ <<t % BASE>> \o MagAddFrom(a, b, i + 1, t \div BASE)
               : t \in {Limb(a, i) + Limb(b, i) + carry} })

MagAdd(x, y, carry) ==
    The({ MagAddFrom(a, b, 1, carry) : a \in {x}, b \in {y} })

\* a - b on magnitudes, for a >= b
RECURSIVE MagSubFrom(_, _, _, _)
MagSubFrom(a, b, i, borrow) ==
    IF i > Len(a) THEN <<>>
    ELSE The({ <<IF t < 0 THEN t + BASE ELSE t>>
               \o MagSubFrom(a, b, i + 1, IF t < 0 THEN 1 ELSE 0)
               : t \in {a[i] - Limb(b, i) - borrow} })

MagSub(x, y) ==
    The({ MagNorm(MagSubFrom(a, b, 1, 0)) : a \in {x}, b \in {y} })

\* -1, 0, 1 as a < b, a = b, a > b (normalised magnitudes)
RECURSIVE MagCmpFrom(_, _, _)
MagCmpFrom(a, b, i) ==
    IF i = 0 THEN 0
    ELSE IF a[i] < b[i] THEN -1
    ELSE IF a[i] > b[i] THEN 1
    ELSE MagCmpFrom(a, b, i - 1)

MagCmp(a, b) ==
    IF Len(a) < Len(b) THEN -1
    ELSE IF Len(a) > Len(b) THEN 1
    ELSE MagCmpFrom(a, b, Len(a))

RECURSIVE MagModFrom(_, _, _, _)
MagModFrom(m, d, i, r) ==
    IF i = 0 THEN r
    ELSE The({ MagModFrom(m, d, i - 1, rr) : rr \in {(r * BASE + m[i]) % d} })

\* schoolbook product of two magnitudes, from limb i of b on
RECURSIVE MagMulFrom(_, _, _)
MagMulFrom(a, b, i) ==
    IF i > Len(b) THEN <<>>
    ELSE The({ MagNorm(MagAdd(row, <<0>> \o rest, 0))
               : row \in {MagMulSmall(a, b[i], 0)},
                 rest \in {MagMulFrom(a, b, i + 1)} })

MagMul(x, y) ==
    The({ IF a = <<>> \/ b = <<>> THEN <<>> ELSE MagMulFrom(a, b, 1)
          : a \in {x}, b \in {y} })

BigMake(neg, mag) == The({ [neg |-> neg /\ m # <<>>, mag |-> m] : m \in {mag} })

BigFromInt(x) ==
    IF x < 0 THEN BigMake(TRUE, MagFromNat(-x)) ELSE BigMake(FALSE, MagFromNat(x))

BigNeg(x) == The({ BigMake(~a.neg, a.mag) : a \in {x} })

BigAdd(x, y) ==
    The({ IF a.neg = b.neg THEN BigMake(a.neg, MagAdd(a.mag, b.mag, 0))
          ELSE IF MagCmp(a.mag, b.mag) >= 0
               THEN BigMake(a.neg, MagSub(a.mag, b.mag))
               ELSE BigMake(b.neg, MagSub(b.mag, a.mag))
          : a \in {x}, b \in {y} })

BigSub(a, b) == BigAdd(a, BigNeg(b))

BigMulSmall(x, s) ==
    The({ IF s = 0 THEN BigZero
          ELSE IF s < 0 THEN BigMake(~a.neg, MagMulSmall(a.mag, -s, 0))
          ELSE BigMake(a.neg, MagMulSmall(a.mag, s, 0))
          : a \in {x} })

BigMul(x, y) ==
    The({ BigMake(a.neg # b.neg, MagMul(a.mag, b.mag)) : a \in {x}, b \in {y} })

\* x ** e by binary exponentiation, as CPython's long_pow does
RECURSIVE BigPow(_, _)
BigPow(x, e) ==
    IF e = 0 THEN BigFromInt(1)
    ELSE The({ IF e % 2 = 0 THEN BigMul(h, h)
               ELSE BigMulSmall(BigMul(h, h), x)
               : h \in {BigPow(x, e \div 2)} })

\* Python's %: the result has the sign of the (positive) divisor
BigMod(x, d) ==
    The({ The({ IF a.neg /\ r # 0 THEN d - r ELSE r
                : r \in {MagModFrom(a.mag, d, Len(a.mag), 0)} })
          : a \in {x} })

BigIsPositive(a) == ~a.neg /\ a.mag # <<>>

(***************************************************************************)
(* Pure functions of the scanner                                           *)
(***************************************************************************)
\* faulty variant: the two powers added instead of subtracted
q47_plus(x) == BigAdd(BigPow(x, Q), BigPow(x - 1, Q))

q47(x) == BigSub(BigPow(x, Q), BigPow(x - 1, Q))

\* faulty variant: the filter on the wrong residue class
Filtered_res2(kk) == kk % 3 = 2

\* the filter of the scan loop: "if k % 3 == 1: continue"
Filtered(kk) == kk % 3 = 1

\* faulty variant: every hit taken for a twin
IsTwin_any(kk) == kk >= 2

\* "if k == 2"
IsTwin(kk) == kk = 2

\* the verdicts gmpy2.is_prime(candidate, 25) can return
is_prime == BOOLEAN

Range(s) == {s[i] : i \in DOMAIN s}

RECURSIVE sorted(_)
sorted(S) ==
    IF S = {} THEN <<>>
    ELSE LET m == CHOOSE x \in S : \A y \in S : x <= y
         IN  <<m>> \o sorted(S \ {m})

\* every main star a run over the model's inputs can reach
AllStars == 0..((CHOOSE x \in (hardcoded_n \cup FileNs) :
                    \A y \in (hardcoded_n \cup FileNs) : y <= x) + 3)

ScanOffsets == {kk \in 2..Radius : kk % 2 = 0}

NoLine == [kind |-> "none", n |-> 0, k |-> 0]

(***************************************************************************)
(* The scan: main()                                                        *)
(***************************************************************************)
Init ==
    /\ pc = "start"
    /\ HAS_GMPY2 \in BOOLEAN
    /\ n_values = {}
    /\ sorted_n = <<>>
    /\ total_main_stars = 0
    /\ bi = 1
    /\ offset = 0
    /\ n = 0
    /\ P = BigZero
    /\ k = 0
    /\ candidate = BigZero
    /\ total_satellites = 0
    /\ twin_primes = 0
    /\ last_line = NoLine
    /\ hit_lines = 0
    /\ twin_lines = 0
    /\ k2_hits = 0
    /\ calls = [s \in AllStars \X ScanOffsets |-> 0]
    /\ oracle_calls = 0
    /\ nonpos_calls = 0
    /\ q47_calls = 0
    /\ residues = {}

scanState == <<bi, offset, n, P, k, candidate>>
counters == <<total_satellites, twin_primes>>
history == <<last_line, hit_lines, twin_lines, k2_hits, calls, oracle_calls,
             nonpos_calls, q47_calls, residues>>

\* n_values = set(); every Sequence/QUADRUPLET number of the *.log, *.txt files
ReadFiles ==
    /\ pc = "start"
    /\ \E found \in SUBSET FileNs : n_values' = found
    /\ pc' = "inject"
    /\ UNCHANGED <<HAS_GMPY2, sorted_n, total_main_stars, scanState, counters,
                   history>>

\* for n in hardcoded_n: n_values.add(n)
InjectHardcoded ==
    /\ pc = "inject"
    /\ n_values' = n_values \cup hardcoded_n
    /\ pc' = "sort"
    /\ UNCHANGED <<HAS_GMPY2, sorted_n, total_main_stars, scanState, counters,
                   history>>

\* sorted_n = sorted(list(n_values)); total_main_stars; the counters set to 0
SortBases ==
    /\ pc = "sort"
    /\ sorted_n' = sorted(n_values)
    /\ total_main_stars' = Len(sorted(n_values)) * 4
    /\ total_satellites' = 0
    /\ twin_primes' = 0
    /\ bi' = 1
    /\ offset' = 0
    /\ pc' = "star"
    /\ UNCHANGED <<HAS_GMPY2, n_values, n, P, k, candidate, history>>

\* faulty variant: P derived from base_n, not from the main star n = base_n + offset
StartStar_baseOnly ==
    /\ pc = "star"
    /\ bi <= Len(sorted_n)
    /\ n' = sorted_n[bi] + offset
    /\ P' = q47(sorted_n[bi])
    /\ q47_calls' = q47_calls + 1
    /\ k' = 2
    /\ pc' = "offsets"
    /\ UNCHANGED <<HAS_GMPY2, n_values, sorted_n, total_main_stars, bi, offset,
                   candidate, counters, last_line, hit_lines, twin_lines,
                   k2_hits, calls, oracle_calls, nonpos_calls, residues>>

\* for base_n in sorted_n: for offset in range(4): n = base_n + offset; P = q47(n)
StartStar ==
    /\ pc = "star"
    /\ bi <= Len(sorted_n)
    /\ n' = sorted_n[bi] + offset
    /\ P' = q47(sorted_n[bi] + offset)
    /\ q47_calls' = q47_calls + 1
    /\ k' = 2
    /\ pc' = "offsets"
    /\ UNCHANGED <<HAS_GMPY2, n_values, sorted_n, total_main_stars, bi, offset,
                   candidate, counters, last_line, hit_lines, twin_lines,
                   k2_hits, calls, oracle_calls, nonpos_calls, residues>>

\* faulty variant: the skip does not move on to the next offset
Skip_stuck ==
    /\ pc = "offsets"
    /\ k <= Radius
    /\ Filtered(k)
    /\ k' = k
    /\ UNCHANGED <<pc, HAS_GMPY2, n_values, sorted_n, total_main_stars, bi,
                   offset, n, P, candidate, counters, history>>

\* if k % 3 == 1: continue
Skip ==
    /\ pc = "offsets"
    /\ k <= Radius
    /\ Filtered(k)
    /\ k' = k + 2
    /\ UNCHANGED <<pc, HAS_GMPY2, n_values, sorted_n, total_main_stars, bi,
                   offset, n, P, candidate, counters, history>>

\* faulty variant: total_satellites counted in the else branch only
Hit_twinUncounted ==
    /\ hit_lines' = hit_lines + 1
    /\ k2_hits' = IF k = 2 THEN k2_hits + 1 ELSE k2_hits
    /\ IF IsTwin(k)
       THEN /\ twin_primes' = twin_primes + 1
            /\ twin_lines' = twin_lines + 1
            /\ last_line' = [kind |-> "twin", n |-> n, k |-> k]
            /\ UNCHANGED total_satellites
       ELSE /\ total_satellites' = total_satellites + 1
            /\ last_line' = [kind |-> "sat", n |-> n, k |-> k]
            /\ UNCHANGED <<twin_primes, twin_lines>>

\* the body of the primality "if": the counters and the printed hit
\* (last_line is the hit just printed: main star, offset, twin or not)
Hit ==
    /\ total_satellites' = total_satellites + 1
    /\ hit_lines' = hit_lines + 1
    /\ k2_hits' = IF k = 2 THEN k2_hits + 1 ELSE k2_hits
    /\ IF IsTwin(k)
       THEN /\ twin_primes' = twin_primes + 1
            /\ twin_lines' = twin_lines + 1
            /\ last_line' = [kind |-> "twin", n |-> n, k |-> k]
       ELSE /\ last_line' = [kind |-> "sat", n |-> n, k |-> k]
            /\ UNCHANGED <<twin_primes, twin_lines>>

\* candidate = P - k; if HAS_GMPY2 and gmpy2.is_prime(candidate, 25): ...
Test ==
    /\ pc = "offsets"
    /\ k <= Radius
    /\ ~Filtered(k)
    /\ candidate' = BigSub(P, BigFromInt(k))
    /\ residues' = residues \cup {k % 30}
    /\ IF HAS_GMPY2
       THEN /\ calls' = [calls EXCEPT ![<<n, k>>] = @ + 1]
            /\ oracle_calls' = oracle_calls + 1
            /\ nonpos_calls' = IF BigIsPositive(BigSub(P, BigFromInt(k)))
                               THEN nonpos_calls ELSE nonpos_calls + 1
            /\ \E verdict \in is_prime :
                 IF verdict
                 THEN Hit
                 ELSE UNCHANGED <<counters, last_line, hit_lines, twin_lines,
                                  k2_hits>>
       ELSE UNCHANGED <<counters, last_line, hit_lines, twin_lines, k2_hits,
                        calls, oracle_calls, nonpos_calls>>
    /\ k' = k + 2
    /\ UNCHANGED <<pc, HAS_GMPY2, n_values, sorted_n, total_main_stars, bi,
                   offset, n, P, q47_calls>>

\* range(2, SEARCH_RADIUS + 1, 2) is exhausted: next offset, or next base_n
EndStar ==
    /\ pc = "offsets"
    /\ k > Radius
    /\ IF offset < 3
       THEN offset' = offset + 1 /\ bi' = bi
       ELSE offset' = 0 /\ bi' = bi + 1
    /\ pc' = "star"
    /\ UNCHANGED <<HAS_GMPY2, n_values, sorted_n, total_main_stars, n, P, k,
                   candidate, counters, history>>

\* sorted_n is exhausted: the final report
Finish ==
    /\ pc = "star"
    /\ bi > Len(sorted_n)
    /\ pc' = "done"
    /\ UNCHANGED <<HAS_GMPY2, n_values, sorted_n, total_main_stars, scanState,
                   counters, history>>

Next ==
    \/ ReadFiles
    \/ InjectHardcoded
    \/ SortBases
    \/ StartStar
    \/ Skip
    \/ Test
    \/ EndStar
    \/ Finish

Spec == Init /\ [][Next]_vars

FairSpec == Spec /\ WF_vars(Next)

(***************************************************************************)
(* The offset loop on its own, over the full SEARCH_RADIUS:                *)
(* for k in range(2, SEARCH_RADIUS + 1, 2): if k % 3 == 1: continue        *)
(* residues collects k % 30 of every offset that reaches the primality     *)
(* test, which is what the mod-30 tables of the analysis scripts count.    *)
(***************************************************************************)
InitOffsets ==
    /\ pc = "k_loop"
    /\ HAS_GMPY2 = TRUE
    /\ n_values = {}
    /\ sorted_n = <<>>
    /\ total_main_stars = 0
    /\ bi = 1
    /\ offset = 0
    /\ n = 0
    /\ P = BigZero
    /\ k = 2
    /\ candidate = BigZero
    /\ total_satellites = 0
    /\ twin_primes = 0
    /\ last_line = NoLine
    /\ hit_lines = 0
    /\ twin_lines = 0
    /\ k2_hits = 0
    /\ calls = [s \in AllStars \X ScanOffsets |-> 0]
    /\ oracle_calls = 0
    /\ nonpos_calls = 0
    /\ q47_calls = 0
    /\ residues = {}

OffSkip ==
    /\ pc = "k_loop"
    /\ k <= SEARCH_RADIUS
    /\ Filtered(k)
    /\ k' = k + 2
    /\ UNCHANGED <<pc, HAS_GMPY2, n_values, sorted_n, total_main_stars, bi,
                   offset, n, P, candidate, counters, history>>

OffTest ==
    /\ pc = "k_loop"
    /\ k <= SEARCH_RADIUS
    /\ ~Filtered(k)
    /\ residues' = residues \cup {k % 30}
    /\ last_line' = [kind |-> "tested", n |-> 0, k |-> k]
    /\ k' = k + 2
    /\ UNCHANGED <<pc, HAS_GMPY2, n_values, sorted_n, total_main_stars, bi,
                   offset, n, P, candidate, counters, hit_lines, twin_lines,
                   k2_hits, calls, oracle_calls, nonpos_calls, q47_calls>>

OffEnd ==
    /\ pc = "k_loop"
    /\ k > SEARCH_RADIUS
    /\ pc' = "k_done"
    /\ UNCHANGED <<HAS_GMPY2, n_values, sorted_n, total_main_stars, scanState,
                   counters, history>>

NextOffsets == OffSkip \/ OffTest \/ OffEnd

SpecOffsets == InitOffsets /\ [][NextOffsets]_vars

TypeOK ==
    /\ pc \in {"start", "inject", "sort", "star", "offsets", "done",
               "k_loop", "k_done"}
    /\ n_values \subseteq (hardcoded_n \cup FileNs)
    /\ total_satellites \in Nat
    /\ twin_primes \in Nat

(***************************************************************************)
(* Properties                                                              *)
(***************************************************************************)
\* offsets of the current main star already past the filter and tested
TestedBefore(kk) == {e \in ScanOffsets : e < kk /\ ~Filtered(e)}

MaxOf(S) == CHOOSE x \in S : \A y \in S : y <= x

\* the (base_n, offset) iterations begun so far
StarsBegun ==
    IF pc \in {"star", "offsets", "done"}
    THEN 4 * (bi - 1) + offset + (IF pc = "offsets" THEN 1 ELSE 0)
    ELSE 0

\* C1 - filter soundness: for every main star n >= 1 and every even offset
\* the loop skips (k mod 3 = 1), P - k is divisible by 3 and is not 3
\* itself, so it is never a prime.
C1_FilterSound ==
    (pc = "offsets" /\ n >= 1) =>
        \A kk \in ScanOffsets :
            Filtered(kk) =>
                /\ BigMod(BigSub(P, BigFromInt(kk)), 3) = 0
                /\ BigSub(P, BigFromInt(kk)) # BigFromInt(3)

\* a main star n >= 2 whose offset 4 has just been skipped
C1_Witness ==
    pc = "offsets" /\ n >= 2 /\ n % 3 = 2 /\ k = 6 /\ BigMod(P, 3) = 1

\* C2 - completeness as claimed: at the end of the scan every unfiltered
\* (main star, k) pair was handed to the primality test exactly once.
C2_ExactlyOnce ==
    pc = "done" =>
        \A b \in n_values : \A o \in StarOffsets : \A kk \in ScanOffsets :
            ~Filtered(kk) => calls[<<b + o, kk>>] = 1

\* C3 as claimed: one derived value per base, P = base^Q - (base-1)^Q taken
\* from the base itself, and as many derived values as bases.
C3_OnePerBase ==
    /\ pc = "offsets" => P = q47(sorted_n[bi])
    /\ pc = "done" => q47_calls = Cardinality(n_values)

\* C3 amended: one derived value per (base, offset) iteration, offset in
\* 0..3, P = n^Q - (n-1)^Q for the main star n = base + offset; every
\* candidate tested in the iteration is P - k for that P; 4 derived values
\* per base in a run.
C3_OnePerStar ==
    /\ pc = "offsets" =>
          /\ offset \in StarOffsets
          /\ n = sorted_n[bi] + offset
          /\ P = q47(n)
          /\ TestedBefore(k) # {} =>
                candidate = BigSub(P, BigFromInt(MaxOf(TestedBefore(k))))
    /\ q47_calls = StarsBegun
    /\ pc = "done" => q47_calls = 4 * Cardinality(n_values)

\* a finished run over two bases: eight derived values
C3_Witness ==
    pc = "done" /\ Cardinality(n_values) = 2 /\ q47_calls = 8

\* C4 - twin flag: a hit is reported as a twin iff its offset is 2; the
\* twin counter is the number of hits with k = 2 and of twin announcements.
C4_TwinFlag ==
    /\ twin_primes = k2_hits
    /\ twin_lines = twin_primes
    /\ last_line.kind \in {"twin", "sat"} =>
          (last_line.kind = "twin" <=> last_line.k = 2)

\* a finished run with a twin hit and a hit at another offset
C4_Witness ==
    pc = "done" /\ twin_primes >= 1 /\ hit_lines > twin_lines

\* C5 - order as claimed: a hit for a main star is never emitted after a hit
\* with a larger or equal k for the same main star (stated here for the hit
\* emitted just before it, and for main stars n >= 2, whose candidates are
\* all positive).
C5_StrictOrder ==
    [][(hit_lines' = hit_lines + 1 /\ last_line.kind # "none"
        /\ last_line'.n >= 2
        /\ last_line'.n = last_line.n) => last_line'.k > last_line.k]_vars

\* C6 - as claimed: with a base < 1 in the input set the primality test is
\* never invoked and no hit is emitted.
C6_RejectsInvalid ==
    (pc \in {"star", "offsets", "done"} /\ \E b \in n_values : b < 1) =>
        (oracle_calls = 0 /\ hit_lines = 0)

\* C7 - as claimed: a candidate P - k <= 0 is never handed to the primality
\* test.
C7_NoNonPositiveTest == nonpos_calls = 0

\* C8 as claimed: the scan terminates with at most |bases| * radius/2 hits.
C8_BoundPerBase ==
    /\ [](total_satellites <= Cardinality(n_values) * (Radius \div 2))
    /\ <>(pc = "done")

\* C8 amended: the scan terminates with at most 4 * |bases| * radius/2 hits
\* (four main stars per base), whatever the primality test answers.
C8_BoundPerStar ==
    /\ [](total_satellites <= 4 * Cardinality(n_values) * (Radius \div 2))
    /\ <>(pc = "done")

\* a finished run in which every tested candidate of a base was a hit
C8_Witness ==
    pc = "done" /\ Cardinality(n_values) = 1
    /\ total_satellites = 4 * Cardinality(TestedBefore(Radius + 1))

\* C9 - counters: 0 <= twin_primes <= total_satellites, total_satellites is
\* the number of hit lines printed, twin_primes is at most the number of
\* main-star iterations begun, neither counter decreases, and a hit adds
\* exactly 1 to total_satellites.
C9_Counters ==
    /\ [](/\ 0 <= twin_primes
          /\ twin_primes <= total_satellites
          /\ total_satellites = hit_lines
          /\ twin_primes <= StarsBegun)
    /\ [][/\ total_satellites' >= total_satellites
          /\ twin_primes' >= twin_primes
          /\ total_satellites' <= total_satellites + 1
          /\ (hit_lines' # hit_lines) =>
                (hit_lines' = hit_lines + 1
                 /\ total_satellites' = total_satellites + 1)]_vars

\* a twin hit on every main star of a base, and other hits besides
C9_Witness ==
    pc = "done" /\ twin_primes = 4 /\ total_satellites > twin_primes

\* C10 - every offset that reaches the primality test is even, lies in
\* [2, SEARCH_RADIUS], has k mod 6 in {0, 2} and k mod 30 in the admissible
\* list of the analysis scripts; and over the whole loop every residue of
\* that list is reached.
C10_Residues ==
    /\ last_line.kind = "tested" =>
          /\ last_line.k % 2 = 0
          /\ last_line.k >= 2
          /\ last_line.k <= SEARCH_RADIUS
          /\ last_line.k % 6 \in {0, 2}
          /\ last_line.k % 30 \in Range(admissible)
    /\ residues \subseteq Range(admissible)
    /\ pc = "k_done" => residues = Range(admissible)

\* the loop has run to the end and all ten residues were seen
C10_Witness ==
    pc = "k_done" /\ Cardinality(residues) = 10 /\ last_line.k = SEARCH_RADIUS
====
